---------------------------- MODULE Spec2Model ----------------------------
(***************************************************************************)
(* A model of the ChatApp relay (src/server.py, src/utils.py).             *)
(*                                                                         *)
(* EnhancedChatServer keeps two dictionaries, clients (socket -> (address, *)
(* username)) and rooms (name -> ChatRoom), and one RateLimiter.  Every    *)
(* accepted socket gets a thread that runs handle_client_authentication    *)
(* and then handle_client.  The code takes no lock, so a thread can be     *)
(* preempted between any two statements; the model lets threads interleave *)
(* at the statements that read or write the shared dictionaries and at     *)
(* every socket send inside a broadcast loop.  Statements that touch only  *)
(* locals are folded into the shared access that follows them.             *)
(*                                                                         *)
(* A thread is a session record (sess[c]: where it is in                   *)
(* handle_client_authentication / handle_client, and the local `username`) *)
(* plus a call stack (calls[c]) of the frames of join_room, leave_room,    *)
(* change_username, broadcast_to_room, broadcast_message and               *)
(* handle_client_disconnect that are in progress.                          *)
(*                                                                         *)
(* Four specifications share the actions.  Spec interleaves the threads of *)
(* NRace sockets freely.  SeqSpec runs NConn sockets with every handler    *)
(* run to its end before another thread moves.  TimedSpec is SeqSpec for   *)
(* two sockets with the clock running.  RateSpec calls the RateLimiter on  *)
(* its own as the clock runs.  In Spec and SeqSpec the clock stands still. *)
(***************************************************************************)
EXTENDS Integers, Sequences, FiniteSets, TLC

\* ------------------------------------------------------------------ bounds
\* Sockets the listener accepts in a run (SeqSpec).
NConn == 3
\* Sockets whose threads the interleaved specification (Spec) runs.
NRace == 2
\* Frames the sessions read between them in a run.
MaxFrames == 2
\* Clock ticks the limiter's specification (RateSpec) lets pass.
MaxTime == 3
\* Deepest call stack of one thread (CPython raises RecursionError beyond
\* its recursion limit; the model scales the limit down).
RecursionLimit == 6
\* ChatRoom.max_users (default 100), scaled down.
max_users == 2
\* RateLimiter.max_messages (default 10) and window_seconds (default 60),
\* scaled down.
max_messages == 2
window_seconds == 2

Conn == 1..NConn
NoConn == 0

\* Usernames that match ^[a-zA-Z0-9_-]{3,16}$: one per socket and a spare
\* one; and a username that does not match.
NameOf == <<"ann", "bob", "cat", "dan", "eve">>
Spare == "zed"
ValidNames == {NameOf[c] : c \in Conn} \cup {Spare}
BadName == "x!"
\* Room names that match ^[a-zA-Z0-9_-]{1,32}$ and one that does not.
ValidRooms == {"main", "r1"}
BadRoom == "r!"

VARIABLES
    clients,        \* self.clients: live socket -> username
    slots,          \* insertion order of self.clients (a deleted key keeps its slot)
    rooms,          \* self.rooms: room name -> ChatRoom.users
    roomOrder,      \* insertion order of self.rooms
    message_times,  \* RateLimiter.message_times: user_id -> list of send times
    now,            \* the clock datetime.now() reads
    sock,           \* socket -> "open", "broken" (peer gone: send raises) or
                    \*           "closed" (closed by the server: recv raises too)
    sess,           \* thread -> [pc, user]: position in the session driver
    calls,          \* thread -> stack of frames (innermost last)
    nframes,        \* history: frames read so far by all sessions
    leaves,         \* history: [receiver][closing socket] -> leave notices delivered
    log,            \* history: [user_id][time] -> the limiter's verdicts on calls then
    ev              \* history: what the last step did

vars == <<clients, slots, rooms, roomOrder, message_times, now, sock, sess,
          calls, nframes, leaves, log, ev>>

\* ----------------------------------------------------------------- helpers
Min(S) == CHOOSE x \in S : \A y \in S : x <= y

Last(s) == s[Len(s)]
Front(s) == SubSeq(s, 1, Len(s) - 1)

\* Put(f, k, v): the dictionary f after f[k] = v.
Put(f, k, v) == [x \in DOMAIN f \cup {k} |-> IF x = k THEN v ELSE f[x]]
\* Del(f, k): the dictionary f after del f[k].
Del(f, k) == [x \in DOMAIN f \ {k} |-> f[x]]

\* The record of a step: the thread that took it, what it did, the envelopes
\* it sent, and (for a /msg) the receiver the frame named.
Msg(to, kind) == [to |-> to, kind |-> kind]
Ev(c, op, sent) == [t |-> c, op |-> op, sent |-> sent, arg |-> ""]
NoEv == Ev(NoConn, "-", {})

\* ------------------------------------------------------------------- utils
\* What a thread reads from its socket as a username: a text with or without
\* an HTML-like tag around it.
Raw(tag, body) == [tag |-> tag, body |-> body]
\* The usernames socket c's peer offers: its own (bare or tagged), the first
\* socket's, and one of invalid format.
AuthNames(c) == {Raw(FALSE, NameOf[c]), Raw(TRUE, NameOf[c]),
                 Raw(FALSE, NameOf[1]), Raw(FALSE, BadName)}
\* The usernames offered to /change: the spare one (bare or tagged), the
\* first socket's, and one of invalid format.
ChangeNames == {Raw(FALSE, Spare), Raw(TRUE, Spare), Raw(FALSE, NameOf[1]),
                Raw(FALSE, BadName)}

\* Security.sanitize_input: re.sub(r'<[^>]*>', '', text) drops the tags.
sanitize_input(raw) == raw.body

\* MessageParser.validate_username / validate_room_name.
validate_username(u) == u \in ValidNames
validate_room_name(r) == r \in ValidRooms

\* What a thread reads from its socket in handle_client: "" (the peer closed),
\* or a frame.  A frame is kept as what is_command and parse_command make of
\* it: whether it starts with '/', and message[1:].split().
EOF == [eof |-> TRUE, cmd |-> FALSE, parts |-> <<>>]
Chat == [eof |-> FALSE, cmd |-> FALSE, parts |-> <<"hi">>]
Cmd(parts) == [eof |-> FALSE, cmd |-> TRUE, parts |-> parts]
CmdParts ==
    {<<>>, <<"help">>, <<"list">>, <<"users">>, <<"leave">>, <<"bogus">>,
     <<"join">>, <<"change">>, <<"msg", NameOf[1]>>}
    \cup {<<"join", r>> : r \in ValidRooms \cup {BadRoom}}
    \cup {<<"change", raw>> : raw \in ChangeNames}
    \cup {<<"msg", n, "hi">> : n \in {NameOf[1], Spare}}
Frames == {Chat} \cup {Cmd(p) : p \in CmdParts}

is_command(f) == f.cmd
\* MessageParser.parse_command: parts[0] raises IndexError on no parts.
parse_ok(f) == Len(f.parts) >= 1
command(f) == f.parts[1]
args(f) == Tail(f.parts)

\* A window that counts its far edge in (InWindow does not).
WindowWithEdge(t, x) == t - x <= window_seconds
\* RateLimiter.can_send_message, on the list ts recorded for the user, at
\* time t: the times still inside the window are kept; the call is admitted
\* if fewer than max_messages are; an admitted call is recorded.
InWindow(t, x) == t - x < window_seconds
Kept(ts, t) == SelectSeq(ts, LAMBDA x : InWindow(t, x))
Admits(ts, t) == Len(Kept(ts, t)) < max_messages
\* A limiter that records a denied call too (Recorded does not).
RecordedAlways(ts, t) == Append(Kept(ts, t), t)
Recorded(ts, t) == IF Admits(ts, t) THEN Append(Kept(ts, t), t) ELSE Kept(ts, t)

TimesOf(u) == IF u \in DOMAIN message_times THEN message_times[u] ELSE <<>>
can_send_message(u) == Admits(TimesOf(u), now)
after_can_send(u) == Put(message_times, u, Recorded(TimesOf(u), now))
\* The log after that call: one more admitted call now, or a denied one.
Logged(u) ==
    [log EXCEPT ![u][now] = IF can_send_message(u)
                            THEN [@ EXCEPT !.adm = @ + 1]
                            ELSE [@ EXCEPT !.den = TRUE]]

\* ------------------------------------------------------------------ frames
Frame(fn, pc, d, room, user, name, kind) ==
    [fn |-> fn, pc |-> pc, sock |-> d, room |-> room, user |-> user,
     name |-> name, kind |-> kind, pos |-> 1, used |-> 0, rem |-> 0,
     fails |-> FALSE]

\* join_room(client_socket, room_name) at its first statement.
JoinFrame(room) == Frame("join", "check", NoConn, room, "", "", "")
\* leave_room(client_socket).
LeaveFrame == Frame("leave", "start", NoConn, "", "", "", "")
\* The join_room(client_socket, "main") that ends leave_room.
LeaveJoinFrame == Frame("join", "check", NoConn, "main", "", "", "leave")
\* change_username(client_socket, new_username).
ChangeFrame(new) == Frame("change", "check", NoConn, "", "", new, "")
\* handle_client_disconnect(client_socket).
DcFrame(d) == Frame("dc", "start", d, "", "", "", "")
\* broadcast_to_room(message, room_name, exclude_socket): the iterator over
\* self.clients.items() is created on entry and records the dictionary's size.
BtrFrame(kind, room, excl) ==
    [Frame("btr", "iter", excl, room, "", "", kind)
        EXCEPT !.used = Cardinality(DOMAIN clients),
               !.rem = Cardinality(DOMAIN clients)]
\* broadcast_message(message, exclude_socket), room=None.
BmFrame(kind, excl) ==
    [Frame("bm", "iter", excl, "", "", "", kind)
        EXCEPT !.used = Cardinality(DOMAIN clients),
               !.rem = Cardinality(DOMAIN clients)]

Top(c) == Last(calls[c])
InFrame(c, fn, pc) ==
    /\ calls[c] # <<>>
    /\ Top(c).fn = fn
    /\ Top(c).pc = pc

\* The stack after the innermost frame returns: a caller that was only waiting
\* to return (pc "ret") returns too.
RECURSIVE PopRet(_)
PopRet(st) ==
    LET s1 == Front(st)
    IN  IF s1 # <<>> /\ Last(s1).pc = "ret" THEN PopRet(s1) ELSE s1

\* The first room, in self.rooms order, that holds username u ("" if none).
RoomsWith(u) == {i \in 1..Len(roomOrder) : u \in rooms[roomOrder[i]]}
RoomOf(u) == IF RoomsWith(u) = {} THEN "" ELSE roomOrder[Min(RoomsWith(u))]

\* Whether a send on socket d goes through.
Healthy(d) == sock[d] = "open"

\* Line 90 / line 143: the username is some registered socket's.
Taken(u) == \E d \in DOMAIN clients : clients[d] = u

\* The session record of a thread that has ended.
Ended == [pc |-> "done", user |-> ""]

\* -------------------------------------------------------------------- Init
\* EnhancedChatServer.__init__: no client, the room "main", a fresh limiter.
Init ==
    /\ clients = [x \in {} |-> ""]
    /\ slots = <<>>
    /\ rooms = [r \in {"main"} |-> {}]
    /\ roomOrder = <<"main">>
    /\ message_times = [x \in {} |-> <<>>]
    /\ now = 0
    /\ sock = [c \in Conn |-> "open"]
    /\ sess = [c \in Conn |-> [pc |-> "idle", user |-> ""]]
    /\ calls = [c \in Conn |-> <<>>]
    /\ nframes = 0
    /\ leaves = [r \in Conn |-> [x \in Conn |-> 0]]
    /\ log = [u \in ValidNames |-> [t \in 0..MaxTime |-> [adm |-> 0, den |-> FALSE]]]
    /\ ev = NoEv

\* ------------------------------------------------- exceptions and returns
\* An exception that no frame of thread c catches.  In handle_client it
\* reaches `except Exception` and then `finally`, which calls
\* handle_client_disconnect; raised by that call, or anywhere in
\* handle_client_authentication, it reaches the `except` of
\* handle_client_authentication, which closes the socket and ends the thread.
Raise(c) ==
    IF sess[c].pc = "hc"
    THEN /\ calls' = [calls EXCEPT ![c] = <<DcFrame(c)>>]
         /\ sess' = [sess EXCEPT ![c].pc = "final"]
         /\ sock' = sock
    ELSE /\ calls' = [calls EXCEPT ![c] = <<>>]
         /\ sess' = [sess EXCEPT ![c] = Ended]
         /\ sock' = [sock EXCEPT ![c] = "closed"]

\* The session record after thread c's stack became st: when the
\* handle_client_disconnect of handle_client's `finally` has returned, the
\* thread ends.
AfterReturn(c, st) ==
    IF st = <<>> /\ sess[c].pc = "final" THEN [sess EXCEPT ![c] = Ended] ELSE sess

\* The innermost frame of thread c returns.
Return(c) ==
    /\ calls' = [calls EXCEPT ![c] = PopRet(calls[c])]
    /\ sess' = AfterReturn(c, PopRet(calls[c]))
    /\ sock' = sock

\* Thread c replaces its innermost frame by `caller` and calls `callee`.
\* A call beyond the recursion limit raises RecursionError instead.
Call(c, caller, callee) ==
    IF Len(calls[c]) >= RecursionLimit
    THEN Raise(c)
    ELSE /\ calls' = [calls EXCEPT ![c] = Front(calls[c]) \o <<caller, callee>>]
         /\ sess' = sess
         /\ sock' = sock

\* ------------------------------------------------------------- listener
\* start_server: accept, send the welcome envelope, start the thread.
\* Sockets are numbered in the order they are accepted.
Accept(c) ==
    /\ sess[c].pc = "idle"
    /\ \A d \in Conn : d < c => sess[d].pc # "idle"
    /\ sess' = [sess EXCEPT ![c].pc = "auth_recv"]
    /\ ev' = Ev(c, "accept", {Msg(c, "system")})
    /\ UNCHANGED <<clients, slots, rooms, roomOrder, message_times, now,
                   sock, calls, leaves, nframes, log>>

\* ------------------------------------------- handle_client_authentication
\* Lines 71-88: recv; on "" or an error close and return; sanitize; reject an
\* invalid username with an error envelope and close.
AuthRecv(c, raw, eof) ==
    /\ sess[c].pc = "auth_recv"
    /\ IF eof \/ ~validate_username(sanitize_input(raw))
       THEN /\ sess' = [sess EXCEPT ![c] = Ended]
            /\ sock' = [sock EXCEPT ![c] = "closed"]
            /\ ev' = IF eof THEN Ev(c, "auth_eof", {})
                     ELSE Ev(c, "auth_invalid",
                             IF Healthy(c) THEN {Msg(c, "error")} ELSE {})
       ELSE /\ sess' = [sess EXCEPT ![c] = [pc |-> "auth_check",
                                            user |-> sanitize_input(raw)]]
            /\ sock' = sock
            /\ ev' = Ev(c, "auth_read", {})
    /\ UNCHANGED <<clients, slots, rooms, roomOrder, message_times, now,
                   calls, leaves, nframes, log>>

\* Lines 90-99: the username is compared with every registered username; a
\* duplicate gets an error envelope and the socket is closed.
AuthCheck(c) ==
    /\ sess[c].pc = "auth_check"
    /\ IF Taken(sess[c].user)
       THEN /\ sess' = [sess EXCEPT ![c] = Ended]
            /\ sock' = [sock EXCEPT ![c] = "closed"]
            /\ ev' = Ev(c, "auth_taken",
                        IF Healthy(c) THEN {Msg(c, "error")} ELSE {})
       ELSE /\ sess' = [sess EXCEPT ![c].pc = "auth_reg"]
            /\ sock' = sock
            /\ ev' = Ev(c, "auth_free", {})
    /\ UNCHANGED <<clients, slots, rooms, roomOrder, message_times, now,
                   calls, leaves, nframes, log>>

\* Line 101: self.clients[client_socket] = (client_address, username).
AuthRegister(c) ==
    /\ sess[c].pc = "auth_reg"
    /\ clients' = Put(clients, c, sess[c].user)
    /\ slots' = Append(slots, c)
    /\ sess' = [sess EXCEPT ![c].pc = "auth_add"]
    /\ ev' = Ev(c, "register", {})
    /\ UNCHANGED <<rooms, roomOrder, message_times, now, sock, calls, leaves,
                   nframes, log>>

\* Lines 102-119: add the username to "main", send the success envelope, call
\* broadcast_message(join_msg, exclude_socket=client_socket).  A failed send
\* raises into the `except` of line 123, which only closes the socket.
AuthAdd(c) ==
    /\ sess[c].pc = "auth_add"
    /\ rooms' = [rooms EXCEPT !["main"] = @ \cup {sess[c].user}]
    /\ IF Healthy(c)
       THEN /\ sess' = [sess EXCEPT ![c].pc = "auth_join"]
            /\ calls' = [calls EXCEPT ![c] = <<BmFrame("join", c)>>]
            /\ sock' = sock
            /\ ev' = Ev(c, "auth_ok", {Msg(c, "system")})
       ELSE /\ sess' = [sess EXCEPT ![c] = Ended]
            /\ calls' = calls
            /\ sock' = [sock EXCEPT ![c] = "closed"]
            /\ ev' = Ev(c, "auth_send_failed", {})
    /\ UNCHANGED <<clients, slots, roomOrder, message_times, now, leaves,
                   nframes, log>>

\* Lines 121, 340: handle_client reads its username from self.clients.  If the
\* socket is no longer registered that is a KeyError; the `finally` disconnect
\* finds nothing to do and the thread ends through line 123.
HandleClientEnter(c) ==
    /\ sess[c].pc = "auth_join"
    /\ calls[c] = <<>>
    /\ IF c \in DOMAIN clients
       THEN /\ sess' = [sess EXCEPT ![c] = [pc |-> "hc", user |-> clients[c]]]
            /\ sock' = sock
       ELSE /\ sess' = [sess EXCEPT ![c] = Ended]
            /\ sock' = [sock EXCEPT ![c] = "closed"]
    /\ ev' = Ev(c, "enter", {})
    /\ UNCHANGED <<clients, slots, rooms, roomOrder, message_times, now,
                   calls, leaves, nframes, log>>

\* ---------------------------------------------------------- handle_client
\* send_private_message: the first registered socket whose username is the
\* receiver gets the envelope; a failed send is printed and the loop left.
PrivateTargets(receiver) ==
    {i \in 1..Len(slots) : slots[i] \in DOMAIN clients
                            /\ clients[slots[i]] = receiver}
PrivateSent(receiver) ==
    IF PrivateTargets(receiver) = {} THEN {}
    ELSE LET d == slots[Min(PrivateTargets(receiver))]
         IN  IF Healthy(d) THEN {Msg(d, "private")} ELSE {}

\* A reply on the thread's own socket: sent, or (the send raising) an exception.
Reply(c, op, kind) ==
    IF Healthy(c)
    THEN [do |-> "stay", op |-> op, sent |-> {Msg(c, kind)}]
    ELSE [do |-> "raise", op |-> "send_failed", sent |-> {}]
Enter(op, frame) == [do |-> "call", op |-> op, sent |-> {}, frame |-> frame]

\* Lines 357-370 and handle_command: what an admitted frame f of user u does.
Dispatch(c, f, u) ==
    IF ~is_command(f)
    THEN Enter("chat", BtrFrame("chat",
                                IF RoomOf(u) = "" THEN "main" ELSE RoomOf(u),
                                NoConn))
    ELSE IF ~parse_ok(f)
    THEN [do |-> "raise", op |-> "index_error", sent |-> {}]
    ELSE CASE command(f) = "help" -> Reply(c, "help", "system")
           [] command(f) = "join" /\ Len(args(f)) = 1 ->
                Enter("join", JoinFrame(args(f)[1]))
           [] command(f) = "leave" -> Enter("leave", LeaveFrame)
           [] command(f) = "list" -> Reply(c, "list", "system")
           [] command(f) = "users" ->
                IF RoomOf(u) # "" THEN Reply(c, "users", "system")
                ELSE [do |-> "stay", op |-> "users", sent |-> {}]
           [] command(f) = "change" /\ Len(args(f)) = 1 ->
                Enter("change", ChangeFrame(args(f)[1]))
           [] command(f) = "msg" /\ Len(args(f)) >= 2 ->
                [do |-> "stay", op |-> "msg",
                 sent |-> PrivateSent(args(f)[1])]
           [] OTHER -> [do |-> "stay", op |-> "ignored", sent |-> {}]

\* What one pass of the `while True` loop does with what recv returned:
\* "" or an error ends the loop; a frame the limiter denies gets an error
\* envelope; an admitted frame is dispatched under the username re-read from
\* self.clients (line 356: a KeyError if the socket is no longer there).
\* The limiter is asked under the loop's previous `username`.
FrameOutcome(c, f) ==
    IF f.eof THEN [do |-> "raise", op |-> "eof", sent |-> {}]
    ELSE IF ~can_send_message(sess[c].user) THEN Reply(c, "deny", "error")
    ELSE IF c \notin DOMAIN clients
    THEN [do |-> "raise", op |-> "key_error", sent |-> {}]
    ELSE Dispatch(c, f, clients[c])

HandleFrame(c, f) ==
    /\ sess[c].pc = "hc"
    /\ calls[c] = <<>>
    /\ sock[c] = "closed" => f.eof
    /\ nframes' = IF f.eof THEN nframes ELSE nframes + 1
    /\ log' = IF f.eof THEN log ELSE Logged(sess[c].user)
    /\ LET out == FrameOutcome(c, f)
       IN  /\ message_times' = IF f.eof THEN message_times
                               ELSE after_can_send(sess[c].user)
           /\ ev' = [Ev(c, out.op, out.sent)
                         EXCEPT !.arg = IF out.op = "msg" THEN args(f)[1] ELSE ""]
           /\ CASE out.do = "raise" -> Raise(c)
                [] out.do = "stay" ->
                     /\ sess' = IF out.op = "deny" THEN sess
                                ELSE [sess EXCEPT ![c].user = clients[c]]
                     /\ UNCHANGED <<calls, sock>>
                [] out.do = "call" ->
                     /\ sess' = [sess EXCEPT ![c].user = clients[c]]
                     /\ calls' = [calls EXCEPT ![c] = <<out.frame>>]
                     /\ sock' = sock
    /\ UNCHANGED <<clients, slots, rooms, roomOrder, now, leaves>>

\* ---------------------------------------------------------------- join_room
\* A room that never counts as full (Full does count).
NeverFull(users) == FALSE
\* Line 230: len(room.users) >= room.max_users.
Full(users) == Cardinality(users) >= max_users

\* Lines 200-237: validate the room name, read the username, create the room
\* if it is absent, reject the join if the room is full.
JoinCheck(c) ==
    /\ InFrame(c, "join", "check")
    /\ LET f == Top(c)
           known == f.room \in DOMAIN rooms
           rooms1 == IF known THEN rooms ELSE Put(rooms, f.room, {})
           order1 == IF known THEN roomOrder ELSE Append(roomOrder, f.room)
       IN  IF ~validate_room_name(f.room)
           THEN /\ IF Healthy(c) THEN Return(c) ELSE Raise(c)
                /\ ev' = Ev(c, "join_invalid",
                            IF Healthy(c) THEN {Msg(c, "error")} ELSE {})
                /\ UNCHANGED <<rooms, roomOrder>>
           ELSE IF c \notin DOMAIN clients
           THEN /\ Raise(c)
                /\ ev' = Ev(c, "key_error", {})
                /\ UNCHANGED <<rooms, roomOrder>>
           ELSE /\ rooms' = rooms1
                /\ roomOrder' = order1
                /\ IF Full(rooms1[f.room])
                   THEN /\ IF Healthy(c) THEN Return(c) ELSE Raise(c)
                        /\ ev' = Ev(c, "join_full",
                                    IF Healthy(c) THEN {Msg(c, "error")} ELSE {})
                   ELSE /\ calls' = [calls EXCEPT ![c] = Front(@) \o
                              <<[f EXCEPT !.pc = "loop", !.user = clients[c],
                                          !.pos = 1, !.used = Len(order1)]>>]
                        /\ UNCHANGED <<sess, sock>>
                        /\ ev' = Ev(c, "join_checked", {})
    /\ UNCHANGED <<clients, slots, message_times, now, leaves, nframes, log>>

\* Lines 239-270: `for r in self.rooms.values()` removes the username from
\* each room that holds it and broadcasts a leave notice there; after the loop
\* the username is added to the target room, the success envelope is sent, and
\* the join notice is broadcast to the room, excluding the joiner.  The
\* iterator raises RuntimeError if self.rooms grew meanwhile.
JoinMove(c) ==
    /\ InFrame(c, "join", "loop")
    /\ LET f == Top(c)
           S == {i \in f.pos..Len(roomOrder) : f.user \in rooms[roomOrder[i]]}
       IN  IF f.used # Len(roomOrder)
           THEN /\ Raise(c)
                /\ ev' = Ev(c, "rooms_changed", {})
                /\ rooms' = rooms
           ELSE IF S # {}
           THEN /\ rooms' = [rooms EXCEPT ![roomOrder[Min(S)]] = @ \ {f.user}]
                /\ Call(c, [f EXCEPT !.pos = Min(S) + 1],
                        BtrFrame("leave", roomOrder[Min(S)], NoConn))
                /\ ev' = Ev(c, "join_removed", {})
           ELSE /\ rooms' = [rooms EXCEPT ![f.room] = @ \cup {f.user}]
                /\ IF Healthy(c)
                   THEN Call(c, [f EXCEPT !.pc = "ret"],
                             BtrFrame("join", f.room, c))
                   ELSE Raise(c)
                /\ ev' = Ev(c, "join_added",
                            IF Healthy(c) THEN {Msg(c, "system")} ELSE {})
    /\ UNCHANGED <<clients, slots, roomOrder, message_times, now, leaves,
                   nframes, log>>

\* --------------------------------------------------------------- leave_room
\* Lines 272-304: find the user's room; remove the username, tell the user,
\* broadcast the leave notice to the room, then join_room(client_socket,
\* "main").  A user in no room is left alone.
LeaveStart(c) ==
    /\ InFrame(c, "leave", "start")
    /\ IF c \notin DOMAIN clients
       THEN /\ Raise(c)
            /\ ev' = Ev(c, "key_error", {})
            /\ rooms' = rooms
       ELSE IF RoomOf(clients[c]) = ""
       THEN /\ Return(c)
            /\ ev' = Ev(c, "leave_nowhere", {})
            /\ rooms' = rooms
       ELSE /\ rooms' = [rooms EXCEPT ![RoomOf(clients[c])] = @ \ {clients[c]}]
            /\ IF Healthy(c)
               THEN Call(c, LeaveJoinFrame,
                         BtrFrame("leave", RoomOf(clients[c]), NoConn))
               ELSE Raise(c)
            /\ ev' = Ev(c, "leave_removed",
                        IF Healthy(c) THEN {Msg(c, "system")} ELSE {})
    /\ UNCHANGED <<clients, slots, roomOrder, message_times, now, leaves,
                   nframes, log>>

\* ---------------------------------------------------------- change_username
\* Lines 128-150: read the current username, sanitize and validate the new
\* one, compare it with every registered username.
ChangeCheck(c) ==
    /\ InFrame(c, "change", "check")
    /\ LET f == Top(c)
           new == sanitize_input(f.name)
       IN  IF c \notin DOMAIN clients
           THEN Raise(c) /\ ev' = Ev(c, "key_error", {})
           ELSE IF ~validate_username(new) \/ Taken(new)
           THEN /\ IF Healthy(c) THEN Return(c) ELSE Raise(c)
                /\ ev' = Ev(c, IF Taken(new) /\ validate_username(new)
                               THEN "change_taken" ELSE "change_invalid",
                            IF Healthy(c) THEN {Msg(c, "error")} ELSE {})
           ELSE /\ calls' = [calls EXCEPT ![c] = Front(@) \o
                      <<[f EXCEPT !.pc = "update", !.user = clients[c],
                                  !.name = new]>>]
                /\ UNCHANGED <<sess, sock>>
                /\ ev' = Ev(c, "change_free", {})
    /\ UNCHANGED <<clients, slots, rooms, roomOrder, message_times, now,
                   leaves, nframes, log>>

\* Lines 152-177: store the new username in self.clients, replace the old
\* username by the new one in the room that holds it, confirm to the user,
\* broadcast the change to "main", excluding the user.
ChangeUpdate(c) ==
    /\ InFrame(c, "change", "update")
    /\ LET f == Top(c)
           r == RoomOf(f.user)
       IN  IF c \notin DOMAIN clients
           THEN /\ Raise(c)
                /\ ev' = Ev(c, "key_error", {})
                /\ UNCHANGED <<clients, rooms>>
           ELSE /\ clients' = [clients EXCEPT ![c] = f.name]
                /\ rooms' = IF r = "" THEN rooms
                            ELSE [rooms EXCEPT ![r] = (@ \ {f.user}) \cup {f.name}]
                /\ IF Healthy(c)
                   THEN Call(c, [f EXCEPT !.pc = "ret"],
                             BtrFrame("change", "main", c))
                   ELSE Raise(c)
                /\ ev' = Ev(c, "changed",
                            IF Healthy(c) THEN {Msg(c, "change")} ELSE {})
    /\ UNCHANGED <<slots, roomOrder, message_times, now, leaves, nframes,
                   log>>

\* ------------------------------------- broadcast_to_room, broadcast_message
\* The iterator of `for client_socket, ... in self.clients.items()`, as
\* CPython's dictiter_iternextitem runs it: RuntimeError if the dictionary's
\* size is not the size recorded on entry; skip deleted slots; stop at the
\* end; RuntimeError if more items turn up than the dictionary held on entry.
LiveFrom(pos) == {i \in pos..Len(slots) : slots[i] \in DOMAIN clients}
Rank(pos, i) == Cardinality({j \in LiveFrom(pos) : j <= i})

\* A loop body that does not compare with exclude_socket (IsRecipient does).
IsRecipientAll(f, d) == f.fn = "btr" => clients[d] \in rooms[f.room]
\* Line 316 / lines 381-383: whether the loop body sends to socket d.
IsRecipient(f, d) ==
    /\ d # f.sock
    /\ f.fn = "btr" => clients[d] \in rooms[f.room]

\* The slots the iterator can still yield whose socket is a recipient.
Recipients(f) ==
    {i \in LiveFrom(f.pos) : Rank(f.pos, i) <= f.rem /\ IsRecipient(f, slots[i])}

SizeChanged(f) == f.used # Cardinality(DOMAIN clients)
KeysChanged(f) == Cardinality(LiveFrom(f.pos)) > f.rem

\* One pass of the loop up to and including the next send: the envelope is
\* delivered, or the send raises and the `except` calls
\* handle_client_disconnect for that socket; or the iterator raises; or the
\* loop ends and the broadcast returns.
BroadcastStep(c) ==
    /\ calls[c] # <<>>
    /\ Top(c).fn \in {"btr", "bm"}
    /\ LET f == Top(c)
           i == Min(Recipients(f))
           d == slots[i]
           g == [f EXCEPT !.pos = i + 1, !.rem = f.rem - Rank(f.pos, i)]
       IN  IF SizeChanged(f)
           THEN /\ Raise(c)
                /\ ev' = Ev(c, "size_changed", {})
                /\ leaves' = leaves
           ELSE IF Recipients(f) # {}
           THEN IF Healthy(d)
                THEN /\ calls' = [calls EXCEPT ![c] = Front(@) \o <<g>>]
                     /\ UNCHANGED <<sess, sock>>
                     /\ ev' = Ev(c, "deliver", {Msg(d, f.kind)})
                     /\ leaves' = IF f.fn = "bm" /\ f.kind = "leave"
                                  THEN [leaves EXCEPT ![d][f.sock] =
                                            IF @ < 2 THEN @ + 1 ELSE @]
                                  ELSE leaves
                ELSE /\ Call(c, [g EXCEPT !.fails = TRUE], DcFrame(d))
                     /\ ev' = Ev(c, "deliver_failed", {})
                     /\ leaves' = leaves
           ELSE IF KeysChanged(f)
           THEN /\ Raise(c)
                /\ ev' = Ev(c, "keys_changed", {})
                /\ leaves' = leaves
           ELSE /\ Return(c)
                /\ ev' = Ev(c, "broadcast_done", {})
                /\ leaves' = leaves
    /\ UNCHANGED <<clients, slots, rooms, roomOrder, message_times, now,
                   nframes, log>>

\* ------------------------------------------------ handle_client_disconnect
\* Lines 391-405: nothing to do for a socket that is not registered; else
\* discard its username from every room and call
\* broadcast_message(leave_msg, exclude_socket=client_socket).
DisconnectStart(c) ==
    /\ InFrame(c, "dc", "start")
    /\ LET f == Top(c)
       IN  IF f.sock \notin DOMAIN clients
           THEN /\ Return(c)
                /\ ev' = Ev(c, "dc_noop", {})
                /\ rooms' = rooms
           ELSE /\ rooms' = [r \in DOMAIN rooms |-> rooms[r] \ {clients[f.sock]}]
                /\ Call(c, [f EXCEPT !.pc = "del", !.user = clients[f.sock]],
                        BmFrame("leave", f.sock))
                /\ ev' = Ev(c, "dc_purged", {})
    /\ UNCHANGED <<clients, slots, roomOrder, message_times, now, leaves,
                   nframes, log>>

\* Lines 409-413: del self.clients[client_socket] (a KeyError if it is no
\* longer there), then close the socket.
DisconnectDelete(c) ==
    /\ InFrame(c, "dc", "del")
    /\ LET f == Top(c)
       IN  IF f.sock \notin DOMAIN clients
           THEN /\ Raise(c)
                /\ ev' = Ev(c, "key_error", {})
                /\ clients' = clients
           ELSE /\ clients' = Del(clients, f.sock)
                /\ calls' = [calls EXCEPT ![c] = PopRet(calls[c])]
                /\ sess' = AfterReturn(c, PopRet(calls[c]))
                /\ sock' = [sock EXCEPT ![f.sock] = "closed"]
                /\ ev' = Ev(c, "dc_deleted", {})
    /\ UNCHANGED <<slots, rooms, roomOrder, message_times, now, leaves,
                   nframes, log>>

\* ------------------------------------------------------------ environment
\* The peer of socket c goes away: from now on a send on c raises.
PeerFails(c) ==
    /\ sess[c].pc \notin {"idle", "done"}
    /\ sock[c] = "open"
    /\ sock' = [sock EXCEPT ![c] = "broken"]
    /\ ev' = Ev(c, "peer_failed", {})
    /\ UNCHANGED <<clients, slots, rooms, roomOrder, message_times, now,
                   sess, calls, leaves, nframes, log>>

\* Time passes.
Tick ==
    /\ now < MaxTime
    /\ now' = now + 1
    /\ ev' = NoEv
    /\ UNCHANGED <<clients, slots, rooms, roomOrder, message_times, sock,
                   sess, calls, leaves, nframes, log>>

\* RateLimiter.can_send_message(user_id), called on its own for the username
\* of socket c.
LimiterCall(c) ==
    /\ message_times' = after_can_send(NameOf[c])
    /\ log' = Logged(NameOf[c])
    /\ ev' = Ev(c, IF can_send_message(NameOf[c]) THEN "admit" ELSE "deny", {})
    /\ UNCHANGED <<clients, slots, rooms, roomOrder, now, sock, sess, calls,
                   leaves, nframes>>

\* -------------------------------------------------------------------- Next
\* One step of thread c between its reads.
Step(c) ==
    \/ AuthCheck(c)
    \/ AuthRegister(c)
    \/ AuthAdd(c)
    \/ HandleClientEnter(c)
    \/ JoinCheck(c)
    \/ JoinMove(c)
    \/ LeaveStart(c)
    \/ ChangeCheck(c)
    \/ ChangeUpdate(c)
    \/ BroadcastStep(c)
    \/ DisconnectStart(c)
    \/ DisconnectDelete(c)

\* Thread c reads from its socket: a username, a frame out of F (while the
\* run's budget of n frames lasts), or the end of the stream.
Read(c, F, n) ==
    \/ \E raw \in AuthNames(c) : AuthRecv(c, raw, FALSE)
    \/ AuthRecv(c, Raw(FALSE, BadName), TRUE)
    \/ \E f \in F : nframes < n /\ HandleFrame(c, f)
    \/ HandleFrame(c, EOF)

\* A thread is between two blocking reads: it has read a frame (or a username)
\* and not yet come back to recv.
Busy(c) ==
    \/ calls[c] # <<>>
    \/ sess[c].pc \in {"auth_check", "auth_reg", "auth_add", "auth_join", "final"}
Quiet == \A d \in Conn : ~Busy(d)

\* The server as it runs: the threads of NRace sockets interleave freely.
Next ==
    \E c \in 1..NRace :
        \/ Accept(c)
        \/ Read(c, Frames, MaxFrames)
        \/ Step(c)
        \/ PeerFails(c)

Spec == Init /\ [][Next]_vars

\* The server with each frame handled to the end before another thread runs,
\* and one handshake at a time: the behaviours in which no two handlers
\* overlap.
SeqNext ==
    \E c \in Conn :
        \/ Quiet /\ (\A d \in Conn : sess[d].pc # "auth_recv") /\ Accept(c)
        \/ Quiet /\ Read(c, Frames, MaxFrames)
        \/ (\A d \in Conn \ {c} : ~Busy(d)) /\ Step(c)
        \/ Quiet /\ PeerFails(c)

SeqSpec == Init /\ [][SeqNext]_vars

\* The same with the clock running, for the first two sockets and the frames
\* a chat and a rename.
TimedConn == {1, 2}
TimedFrames == {Chat, Cmd(<<"change", Raw(FALSE, Spare)>>)}
MaxTimedFrames == 4
TimedNext ==
    \/ \E c \in TimedConn :
        \/ Quiet /\ (\A d \in Conn : sess[d].pc # "auth_recv") /\ Accept(c)
        \/ Quiet /\ Read(c, TimedFrames, MaxTimedFrames)
        \/ (\A d \in Conn \ {c} : ~Busy(d)) /\ Step(c)
    \/ Quiet /\ Tick

TimedSpec == Init /\ [][TimedNext]_vars

\* The limiter alone: calls for the usernames of the first two sockets as
\* time passes.
RateUsers == {1, 2}
RateNext ==
    \/ Tick
    \/ \E c \in RateUsers : LimiterCall(c)

RateSpec == Init /\ [][RateNext]_vars

\* The sequential server under fair scheduling, for the first two sockets and
\* the frames a chat and a private message.  A thread that can take a step
\* is eventually scheduled, and a recv on a socket whose transport has failed
\* eventually returns (empty, or with an error); nothing obliges a client to
\* send anything.
FairConn == {1, 2}
FairFrames == {Chat, Cmd(<<"msg", NameOf[1], "hi">>)}
MaxFairFrames == 2
ReadFails(c) ==
    /\ sock[c] # "open"
    /\ \/ AuthRecv(c, Raw(FALSE, BadName), TRUE)
       \/ HandleFrame(c, EOF)
FairNext ==
    \E c \in FairConn :
        \/ Quiet /\ (\A d \in Conn : sess[d].pc # "auth_recv") /\ Accept(c)
        \/ Quiet /\ Read(c, FairFrames, MaxFairFrames)
        \/ (\A d \in Conn \ {c} : ~Busy(d)) /\ Step(c)
        \/ Quiet /\ PeerFails(c)
Fairness ==
    \A c \in FairConn :
        /\ WF_vars((\A d \in Conn \ {c} : ~Busy(d)) /\ Step(c))
        /\ WF_vars(Quiet /\ ReadFails(c))

FairSpec == Init /\ [][FairNext]_vars /\ Fairness

\* ------------------------------------------------------------------- codec
\* utils.Message and its JSON codec.  A string is a sequence of characters;
\* an Optional[str] is None or a string.  The words of MessageType are single
\* symbols.
MaxContent == 2
Quote == "\""
Backslash == "\\"
Chars == {"a", Quote, Backslash}
None == [some |-> FALSE, chars |-> <<>>]
Str(s) == [some |-> TRUE, chars |-> s]
Strings(n) == UNION {[1..k -> Chars] : k \in 0..n}

\* class MessageType(Enum): the nine members, by value.
MessageTypeValues ==
    {"chat", "system", "private", "join", "leave", "status", "error",
     "command", "change"}
\* MessageType(value): the member with that value, or ValueError.
MessageType(v) ==
    IF v.some /\ Len(v.chars) = 1 /\ v.chars[1] \in MessageTypeValues
    THEN [ok |-> TRUE, member |-> v.chars[1]]
    ELSE [ok |-> FALSE, member |-> "ValueError"]

\* Message(...), with __post_init__ filling a missing timestamp.
Message(type, content, sender, receiver, timestamp, room) ==
    [type |-> type, content |-> content, sender |-> sender,
     receiver |-> receiver,
     timestamp |-> IF timestamp.some THEN timestamp ELSE Str(<<"now">>),
     room |-> room]

\* The keys of to_dict, in the order it writes them.
Keys == <<"type", "content", "sender", "receiver", "timestamp", "room">>
to_dict(e) ==
    [k \in {Keys[i] : i \in 1..Len(Keys)} |->
        CASE k = "type" -> Str(<<e.type>>)
          [] k = "content" -> e.content
          [] k = "sender" -> e.sender
          [] k = "receiver" -> e.receiver
          [] k = "timestamp" -> e.timestamp
          [] k = "room" -> e.room]

\* An escaping that leaves the backslash alone (Escape doubles it).
RECURSIVE EscapeQuoteOnly(_)
EscapeQuoteOnly(s) ==
    IF s = <<>> THEN <<>>
    ELSE (IF Head(s) = Quote THEN <<Backslash, Quote>> ELSE <<Head(s)>>)
             \o EscapeQuoteOnly(Tail(s))
\* json.dumps of a string: a quote and a backslash are written behind a
\* backslash.
RECURSIVE Escape(_)
Escape(s) ==
    IF s = <<>> THEN <<>>
    ELSE (IF Head(s) \in {Quote, Backslash} THEN <<Backslash, Head(s)>>
          ELSE <<Head(s)>>) \o Escape(Tail(s))
\* json.loads of a string: the character behind a backslash is taken as it is.
RECURSIVE Unescape(_)
Unescape(s) ==
    IF s = <<>> THEN <<>>
    ELSE IF Head(s) = Backslash /\ Len(s) >= 2
         THEN <<s[2]>> \o Unescape(Tail(Tail(s)))
         ELSE <<Head(s)>> \o Unescape(Tail(s))

\* json.dumps of a dict: its items in order, None written as null.
Dumps(d) ==
    [i \in 1..Len(Keys) |->
        [key |-> Keys[i], null |-> ~d[Keys[i]].some,
         text |-> Escape(d[Keys[i]].chars)]]
\* json.loads of an object.
Loads(j) ==
    [k \in {j[i].key : i \in 1..Len(j)} |->
        LET i == CHOOSE i \in 1..Len(j) : j[i].key = k
        IN  IF j[i].null THEN None ELSE Str(Unescape(j[i].text))]

to_json(e) == Dumps(to_dict(e))

\* Message.from_json: json.loads, data['type'] = MessageType(data['type']),
\* cls(**data).  KeyError without a 'type', ValueError on a type that is not
\* a member's value, TypeError on a missing or unknown argument.
NoMessage == Message("chat", Str(<<>>), None, None, Str(<<"t0">>), None)
Failed(error) == [ok |-> FALSE, error |-> error, msg |-> NoMessage]
from_json(j) ==
    LET data == Loads(j)
    IN  IF "type" \notin DOMAIN data THEN Failed("KeyError")
        ELSE IF ~MessageType(data["type"]).ok THEN Failed("ValueError")
        ELSE IF \/ "content" \notin DOMAIN data
                \/ DOMAIN data \notin SUBSET {Keys[i] : i \in 1..Len(Keys)}
        THEN Failed("TypeError")
        ELSE [ok |-> TRUE, error |-> "",
              msg |-> Message(MessageType(data["type"]).member,
                              data["content"],
                              IF "sender" \in DOMAIN data
                              THEN data["sender"] ELSE None,
                              IF "receiver" \in DOMAIN data
                              THEN data["receiver"] ELSE None,
                              IF "timestamp" \in DOMAIN data
                              THEN data["timestamp"] ELSE None,
                              IF "room" \in DOMAIN data
                              THEN data["room"] ELSE None)]

\* The valid envelopes, and payloads off the wire whose type is no member's
\* value (a member's name, an unknown word, null).
OptNames == {None, Str(<<"a", Quote>>)}
Envelopes ==
    {Message(t, Str(c), s, r, Str(<<"t0">>), m) :
        t \in MessageTypeValues, c \in Strings(MaxContent),
        s \in OptNames, r \in OptNames, m \in OptNames}
BadTypes == {Str(<<"bogus">>), Str(<<"CHAT">>), None}
Payloads ==
    {[to_json(e) EXCEPT ![1].null = ~b.some, ![1].text = b.chars] :
        e \in {x \in Envelopes : x.type = "chat" /\ ~x.sender.some},
        b \in BadTypes}

\* The codec alone: an envelope is built or a payload arrives; the envelope is
\* encoded; the text is decoded.  The step record holds the values.
CodecRec(e, made, json, out) ==
    [msg |-> e, made |-> made, json |-> json, out |-> out]
CodecMake ==
    /\ ev = NoEv
    /\ \E e \in Envelopes :
          ev' = Ev(NoConn, "message", {CodecRec(e, TRUE, <<>>, Failed(""))})
CodecArrive ==
    /\ ev = NoEv
    /\ \E p \in Payloads :
          ev' = Ev(NoConn, "to_json", {CodecRec(NoMessage, FALSE, p, Failed(""))})
CodecEncode ==
    /\ ev.op = "message"
    /\ ev' = Ev(NoConn, "to_json",
                {[x EXCEPT !.json = to_json(x.msg)] : x \in ev.sent})
CodecDecode ==
    /\ ev.op = "to_json"
    /\ ev' = Ev(NoConn, "from_json",
                {[x EXCEPT !.out = from_json(x.json)] : x \in ev.sent})
CodecNext ==
    /\ \/ CodecMake
       \/ CodecArrive
       \/ CodecEncode
       \/ CodecDecode
    /\ UNCHANGED <<clients, slots, rooms, roomOrder, message_times, now, sock,
                   sess, calls, nframes, leaves, log>>

CodecSpec == Init /\ [][CodecNext]_vars

\* ------------------------------------------------------------------ claims
\* C1. No two registered connections hold the same username, whatever the
\* interleaving of authentications and renames on different threads.
UsernamesUnique ==
    \A a, b \in DOMAIN clients : a # b => clients[a] # clients[b]

\* C2. Every room's member set holds at most max_users usernames.
RoomsWithinCapacity ==
    \A r \in DOMAIN rooms : Cardinality(rooms[r]) <= max_users

\* C3. The username of each registered connection is a member of exactly one
\* room.  Stated for the states in which no handler is in progress and every
\* registered connection's transport is healthy; the claim asks it of every
\* registered connection that is not closed, in every state.
ExactlyOneRoom ==
    (Quiet /\ \A d \in DOMAIN clients : Healthy(d))
        => \A c \in DOMAIN clients :
               Cardinality({r \in DOMAIN rooms : clients[c] \in rooms[r]}) = 1

\* C4. Every username in a room's member set is the current username of a
\* registered connection.
MembersRegistered ==
    \A r \in DOMAIN rooms : \A u \in rooms[r] : Taken(u)

\* C5. Every connection is sent the 'left the chat' notice of a closing
\* connection at most once.
LeaveNoticeOnce ==
    \A d, c \in Conn : leaves[d][c] <= 1

\* C6. No broadcast is about to pick its next recipient while a disconnecting
\* connection is half removed: purged from the rooms by
\* handle_client_disconnect but still in the registry.
HalfRemoved(d) ==
    /\ d \in DOMAIN clients
    /\ RoomsWith(clients[d]) = {}
    /\ \E t \in Conn : \E i \in 1..Len(calls[t]) :
           /\ calls[t][i].fn = "dc"
           /\ calls[t][i].pc = "del"
           /\ calls[t][i].sock = d
Broadcasting(c) == calls[c] # <<>> /\ Top(c).fn \in {"btr", "bm"}
NoHalfRemovedSeen ==
    (\E c \in Conn : Broadcasting(c)) => \A d \in Conn : ~HalfRemoved(d)

\* C7. A broadcast in which a delivery has failed, run by a thread whose own
\* transport is healthy, does not end while a registered, healthy recipient
\* of it is still to be served.
Unserved(f) ==
    {slots[i] : i \in {j \in LiveFrom(f.pos) :
                          IsRecipient(f, slots[j]) /\ Healthy(slots[j])}}
FrameEnds(c) ==
    \/ Len(calls'[c]) < Len(calls[c])
    \/ calls'[c][Len(calls[c])].fn # Top(c).fn
FailureDoesNotAbort ==
    [][\A c \in Conn :
          (Broadcasting(c) /\ Healthy(c) /\ Top(c).fails /\ FrameEnds(c))
              => Unserved(Top(c)) = {}]_vars

\* C8. An Active session with a healthy transport, in whose broadcast a
\* delivery to another connection has failed, stays Active, registered and a
\* member of its room.
FailedFor(c) == \E i \in 1..Len(calls[c]) : calls[c][i].fails
BroadcasterStays ==
    [][\A c \in Conn :
          (/\ sess[c].pc = "hc"
           /\ FailedFor(c)
           /\ sock[c] = "open"
           /\ sock'[c] = "open"
           /\ c \in DOMAIN clients
           /\ RoomsWith(clients[c]) # {})
              => /\ sess'[c].pc = "hc"
                 /\ c \in DOMAIN clients'
                 /\ \E r \in DOMAIN rooms' : clients'[c] \in rooms'[r]]_vars

\* C9. With M = max_messages and W = window_seconds: a call for an identity
\* is denied only if M calls for it were admitted less than W ago (so M calls
\* within a span shorter than W are all admitted, and a call made once W has
\* elapsed since the earliest of M admitted sends is admitted again), and it
\* is admitted only if, with it, at most M were (so a further call less than
\* W after the earliest of M admitted sends is denied, and the expiry of the
\* earliest frees one slot, not more).
RECURSIVE AdmittedFrom(_, _)
AdmittedFrom(u, t) ==
    IF t > now THEN 0 ELSE log[u][t].adm + AdmittedFrom(u, t + 1)
AdmittedLately(u) ==
    AdmittedFrom(u, IF now - window_seconds + 1 > 0
                    THEN now - window_seconds + 1 ELSE 0)
RateWindow ==
    \A c \in Conn :
        /\ (ev.t = c /\ ev.op = "deny")
               => AdmittedLately(NameOf[c]) >= max_messages
        /\ (ev.t = c /\ ev.op = "admit")
               => AdmittedLately(NameOf[c]) <= max_messages

\* The first identity had M calls admitted, the earliest at time 0, and a
\* further call denied inside the window; its call at time W has just been
\* admitted, the sends after time 0 still being counted.
RateWindowSlides ==
    /\ now = window_seconds
    /\ ev = Ev(1, "admit", {})
    /\ log[NameOf[1]][0].adm = 1
    /\ \E t \in 1..(window_seconds - 1) : log[NameOf[1]][t].den
    /\ Len(message_times[NameOf[1]]) = max_messages

\* C10. When the limiter denies a frame read by an Active session whose
\* transport is healthy, the step sends one error envelope, to that
\* connection; calls no handler and starts no broadcast; leaves the session
\* in its loop; and changes neither the registry, nor a room, nor the
\* recorded send times.
DenyChangesNothing ==
    [][\A c \in Conn :
          (/\ sess[c].pc = "hc"
           /\ ev'.t = c
           /\ nframes' = nframes + 1
           /\ Healthy(c)
           /\ ~can_send_message(sess[c].user))
              => /\ ev'.sent = {Msg(c, "error")}
                 /\ calls'[c] = <<>>
                 /\ sess'[c].pc = "hc"
                 /\ clients' = clients
                 /\ rooms' = rooms
                 /\ message_times' = message_times]_vars

\* A frame has just been denied after time has passed: an earlier send of
\* the identity is still inside the window.
FrameDenied ==
    /\ ev.op = "deny"
    /\ now > 0
    /\ sess[ev.t].pc = "hc"
    /\ \E i \in 1..Len(TimesOf(sess[ev.t].user)) :
           TimesOf(sess[ev.t].user)[i] < now

\* C11. When an Active session with a healthy transport has dispatched a
\* /join to a room that holds max_users members or more, the next step of the
\* session sends one error envelope, to the requester, and nothing else; it
\* changes no member set and no registry entry, starts no broadcast, and the
\* session is back in its loop.
JoinFullRejected ==
    [][\A c \in Conn :
          (/\ ev = Ev(c, "join", {})
           /\ ev'.t = c
           /\ Healthy(c)
           /\ Top(c).room \in DOMAIN rooms
           /\ Cardinality(rooms[Top(c).room]) >= max_users)
              => /\ ev'.sent = {Msg(c, "error")}
                 /\ rooms' = rooms
                 /\ clients' = clients
                 /\ calls'[c] = <<>>
                 /\ sess'[c].pc = "hc"]_vars

\* A /join to the full room "main" has just been rejected and the requester
\* is still a member of "r1".
JoinFullSeen ==
    /\ ev.op = "join_full"
    /\ ev.sent = {Msg(ev.t, "error")}
    /\ "r1" \in DOMAIN rooms
    /\ ev.t \in DOMAIN clients
    /\ clients[ev.t] \in rooms["r1"]
    /\ Cardinality(rooms["main"]) >= max_users

\* C12. A delivery made by a broadcast_to_room or broadcast_message frame is
\* never made on the frame's exclude_socket.
ExcludedNeverServed ==
    [][\A c \in Conn :
          (ev'.t = c /\ ev'.op = "deliver" /\ Broadcasting(c))
              => \A m \in ev'.sent : m.to # Top(c).sock]_vars

\* A room broadcast that excludes a registered member of the room has just
\* delivered to another member.
ExclusionSeen ==
    /\ ev.op = "deliver"
    /\ Broadcasting(ev.t)
    /\ Top(ev.t).fn = "btr"
    /\ Top(ev.t).sock \in DOMAIN clients
    /\ clients[Top(ev.t).sock] \in rooms[Top(ev.t).room]

\* C13: a /msg <user> <text> frame from an Active session delivers one private
\* envelope to the one registered connection whose username is <user> and to
\* no other connection; when no registered connection has that username
\* nothing is sent, the sender gets no error, and the registry and the rooms
\* are unchanged.
Named(n) == {d \in DOMAIN clients : clients[d] = n}
PrivateToNamedOnly ==
    [][\A c \in Conn :
          (ev'.t = c /\ ev'.op = "msg" /\ sess[c].pc = "hc")
              => /\ Cardinality(Named(ev'.arg)) <= 1
                 /\ Named(ev'.arg) = {} => ev'.sent = {}
                 /\ \A d \in Named(ev'.arg) :
                        Healthy(d) => ev'.sent = {Msg(d, "private")}
                 /\ clients' = clients
                 /\ rooms' = rooms
                 /\ sess'[c].pc = "hc"]_vars

\* C14: a malformed command frame (an unknown verb, a wrong argument count for
\* join, msg or change, or the bare prefix with no verb) from an Active session
\* is silently ignored: no envelope is sent, the registry and the rooms are
\* unchanged, and the session stays Active.
Malformed(op) == op \in {"ignored", "index_error"}
MalformedIgnored ==
    [][\A c \in Conn :
          (ev'.t = c /\ Malformed(ev'.op) /\ sess[c].pc = "hc" /\ calls[c] = <<>>)
              => /\ ev'.sent = {}
                 /\ clients' = clients
                 /\ rooms' = rooms
                 /\ calls'[c] = <<>>
                 /\ sess'[c].pc = "hc"]_vars

\* C15: in Authenticating, a frame whose sanitised username is invalid is
\* answered with an error envelope and the connection remains open, still
\* Authenticating, for another attempt.
InvalidUsernameRetry ==
    [][\A c \in Conn :
          (/\ ev'.t = c
           /\ ev'.op = "auth_invalid"
           /\ sess[c].pc = "auth_recv"
           /\ Healthy(c))
              => /\ ev'.sent = {Msg(c, "error")}
                 /\ sock'[c] = "open"
                 /\ sess'[c].pc = "auth_recv"]_vars

\* C16: a /join whose room name is invalid is answered with an error envelope
\* and the connection is closed with full cleanup: the session leaves Active
\* and its teardown begins.
InvalidRoomCloses ==
    [][\A c \in Conn :
          (/\ InFrame(c, "join", "check")
           /\ ~validate_room_name(Top(c).room)
           /\ Healthy(c)
           /\ ev'.t = c)
              => /\ ev'.sent = {Msg(c, "error")}
                 /\ sess'[c].pc # "hc"]_vars

\* C17: when a /leave has completed, the user is a member of "main" and of no
\* other room, whatever the occupancy of "main" was.  Stated for a /leave that
\* completes while every registered connection's transport is healthy.
LeaveCompletes(c) ==
    /\ calls[c] # <<>>
    /\ calls[c][1].fn = "join"
    /\ calls[c][1].kind = "leave"
    /\ calls'[c] = <<>>
    /\ sess'[c].pc = "hc"
    /\ c \in DOMAIN clients'
    /\ \A d \in DOMAIN clients : Healthy(d)
LeaveEndsInMain ==
    [][\A c \in Conn :
          LeaveCompletes(c)
              => {r \in DOMAIN rooms' : clients'[c] \in rooms'[r]} = {"main"}]_vars

\* C18: a successful /change preserves room membership: afterwards the
\* registry entry of the connection holds the new username, the new username
\* is a member of exactly the rooms the old username was a member of, the old
\* username is in no room and in no registry entry, and no other connection's
\* registry entry or membership has changed.
RoomsBefore(u) == {r \in DOMAIN rooms : u \in rooms[r]}
RoomsAfter(u) == {r \in DOMAIN rooms' : u \in rooms'[r]}
Renaming(c) ==
    /\ InFrame(c, "change", "update")
    /\ c \in DOMAIN clients
    /\ ev'.t = c
    /\ ev'.op = "changed"
RenameKeepsRoom ==
    [][\A c \in Conn :
          Renaming(c)
              => LET old == clients[c]
                     new == Top(c).name
                 IN  /\ DOMAIN clients' = DOMAIN clients
                     /\ DOMAIN rooms' = DOMAIN rooms
                     /\ clients'[c] = new
                     /\ RoomsAfter(new) = RoomsBefore(old)
                     /\ RoomsAfter(old) = {}
                     /\ \A d \in DOMAIN clients' : clients'[d] # old
                     /\ \A d \in DOMAIN clients \ {c} : clients'[d] = clients[d]
                     /\ \A r \in DOMAIN rooms :
                            rooms'[r] \ {old, new} = rooms[r] \ {old, new}]_vars

\* C19: the join envelope of a successful authentication is delivered only to
\* connections that are members of "main", other than the newly authenticated
\* connection, and to no connection that is in another room.
JoinNoticeOnlyToMain ==
    [][\A c \in Conn :
          (/\ sess[c].pc = "auth_join"
           /\ calls[c] # <<>>
           /\ Top(c).fn = "bm"
           /\ Top(c).kind = "join"
           /\ ev'.t = c
           /\ ev'.op = "deliver")
              => \A m \in ev'.sent :
                    /\ m.to # c
                    /\ m.to \in DOMAIN clients
                    /\ clients[m.to] \in rooms["main"]]_vars

\* C20: every transport failure leads to closure of the affected session with
\* full cleanup: under fair scheduling, a registered connection whose
\* transport has failed is eventually unregistered and in no room; no
\* connection with a failed transport stays registered forever.
FailedAndRegistered(c) == c \in DOMAIN clients /\ sock[c] # "open"
CleanedUp(c) == c \notin DOMAIN clients
FailureLeadsToCleanup ==
    \A c \in FairConn : FailedAndRegistered(c) ~> CleanedUp(c)

\* C21: codec round trip: for every valid envelope e, Message.from_json of
\* e.to_json() succeeds and equals e field for field; and from_json of a
\* payload whose type is not one of the nine kinds fails with an error instead
\* of producing an envelope.
Decoded(x) == ev.op = "from_json" /\ x \in ev.sent
CodecRoundTrip ==
    \A x \in ev.sent :
        Decoded(x) =>
            /\ x.made => (x.out.ok /\ x.out.msg = x.msg)
            /\ ~MessageType(Loads(x.json)["type"]).ok => ~x.out.ok
RoundTripSeen ==
    \E x \in ev.sent :
        /\ Decoded(x)
        /\ x.made
        /\ x.out.ok
        /\ x.msg.content = Str(<<Backslash, Quote>>)
        /\ x.msg.type = "private"
        /\ ~x.msg.room.some
        /\ x.msg.sender.some

\* C22: a successful /join moves the user in this order: the username is
\* removed from the room it occupies and that room's remaining members are
\* sent the leave notice; then the username is added to the target room, which
\* exists by then, and the target room's other members are sent the join
\* notice, which is not delivered to the joining connection; afterwards the
\* user is a member of the target room only.  Stated step by step for a join
\* during which every registered connection's transport is healthy.
AllHealthy == \A d \in DOMAIN clients : Healthy(d)
\* Thread c is broadcasting a notice of the given kind from inside join_room.
JoinNotice(c, kind) ==
    /\ Len(calls[c]) >= 2
    /\ Top(c).fn = "btr"
    /\ Top(c).kind = kind
    /\ calls[c][Len(calls[c]) - 1].fn = "join"
    /\ calls[c][Len(calls[c]) - 1].pc # "check"
    /\ ev'.t = c
    /\ ev'.op = "deliver"
    /\ AllHealthy
Joiner(c) == calls[c][Len(calls[c]) - 1]
JoinAdds(c) ==
    /\ InFrame(c, "join", "loop")
    /\ ev'.t = c
    /\ ev'.op = "join_added"
    /\ AllHealthy
JoinCompletes(c) ==
    /\ InFrame(c, "join", "ret")
    /\ calls'[c] = <<>>
    /\ sess'[c].pc = "hc"
    /\ c \in DOMAIN clients'
    /\ AllHealthy
JoinInOrder ==
    [][\A c \in Conn :
          /\ JoinNotice(c, "leave")
                => /\ Joiner(c).pc = "loop"
                   /\ RoomsBefore(Joiner(c).user) = {}
                   /\ \A m \in ev'.sent :
                          /\ m.to # c
                          /\ clients[m.to] \in rooms[Top(c).room]
          /\ JoinAdds(c)
                => /\ RoomsBefore(Top(c).user) = {}
                   /\ Top(c).room \in DOMAIN rooms
                   /\ RoomsAfter(Top(c).user) = {Top(c).room}
                   /\ ev'.sent = {Msg(c, "system")}
          /\ JoinNotice(c, "join")
                => /\ Joiner(c).pc = "ret"
                   /\ Top(c).room = Joiner(c).room
                   /\ RoomsBefore(Joiner(c).user) = {Joiner(c).room}
                   /\ \A m \in ev'.sent :
                          /\ m.to # c
                          /\ clients[m.to] \in rooms[Joiner(c).room]
          /\ JoinCompletes(c)
                => RoomsAfter(clients'[c]) = {Top(c).room}]_vars

\* C23: a plain frame admitted in Active is delivered as a chat envelope
\* tagged with the sender's current room to the registered connections whose
\* usernames are members of that room and to no connection in another room;
\* a chat message is never delivered to, or tagged with, a room of which the
\* sender is not a member at that moment.  Stated while every registered
\* connection's transport is healthy.
ChatTagged(c) ==
    /\ sess[c].pc = "hc"
    /\ calls[c] = <<>>
    /\ ev'.t = c
    /\ ev'.op = "chat"
    /\ AllHealthy
ChatDelivered(c) ==
    /\ InFrame(c, "btr", "iter")
    /\ Len(calls[c]) = 1
    /\ Top(c).kind = "chat"
    /\ ev'.t = c
    /\ ev'.op = "deliver"
    /\ AllHealthy
ChatStaysInRoom ==
    [][\A c \in Conn :
          /\ ChatTagged(c)
                => clients[c] \in rooms[calls'[c][1].room]
          /\ ChatDelivered(c)
                => /\ clients[c] \in rooms[Top(c).room]
                   /\ \A m \in ev'.sent :
                          /\ m.kind = "chat"
                          /\ clients[m.to] \in rooms[Top(c).room]]_vars

\* C24: room operations are linearized: the connections one broadcast_to_room
\* call delivers to are the room's members (minus the excluded connection) at
\* a single instant, as if snapshotted before iterating; a membership change
\* to that room made by another thread while the broadcast is iterating does
\* not change which connections receive the envelope.
StillToReceive(c) == {slots[i] : i \in Recipients(Top(c))}
OtherThreadSteps(c) ==
    /\ InFrame(c, "btr", "iter")
    /\ calls' = [calls EXCEPT ![ev'.t] = calls'[ev'.t]]
    /\ ev'.t # c
    /\ ev'.t # NoConn
BroadcastLinearized ==
    [][\A c \in Conn :
          OtherThreadSteps(c) => StillToReceive(c)' = StillToReceive(c)]_vars

\* C25: rate limiting bounds each connection regardless of renames: of all the
\* frames of one connection, at most max_messages are admitted within any
\* interval of window_seconds, even when the connection changes its username
\* between frames.  Stated for the first connection while it is the only one
\* the server has accepted, so that every admitted frame is its own.
RECURSIVE AdmittedUnder(_)
AdmittedUnder(names) ==
    IF names = {} THEN 0
    ELSE LET u == CHOOSE u \in names : TRUE
         IN  AdmittedLately(u) + AdmittedUnder(names \ {u})
OnlyFirstAccepted == \A d \in Conn \ {1} : sess[d].pc = "idle"
RateBoundsConnection ==
    OnlyFirstAccepted => AdmittedUnder(ValidNames) <= max_messages

\* C26: handle_client_disconnect always terminates: the cleanups triggered by
\* failed deliveries inside the leave broadcast do not re-enter each other
\* without bound.  No thread is inside handle_client_disconnect for a socket
\* while an earlier call of it for the same socket, which has not yet removed
\* the socket from the registry, is still on its stack.
Reentered(c) ==
    \E i, j \in 1..Len(calls[c]) :
        /\ i < j
        /\ calls[c][i].fn = "dc"
        /\ calls[c][j].fn = "dc"
        /\ calls[c][i].sock = calls[c][j].sock
        /\ calls[c][j].sock \in DOMAIN clients
DisconnectNotReentered == \A c \in Conn : ~Reentered(c)

=============================================================================
